---- MODULE Spec2Model ----
(***************************************************************************)
(* Model of status_tracker.py: the StatusTracker class that polls the      *)
(* incidents and components resources with conditional (ETag) requests,    *)
(* detects new incidents and status changes, and prints a notification for *)
(* each.  Strings of the program are TLA+ strings, except ETag values,     *)
(* which are sequences of one-character strings so that str.strip can be   *)
(* computed; Python's None is a distinguished value of each type.          *)
(***************************************************************************)
EXTENDS Integers, Sequences, FiniteSets

VARIABLES
  pc,                 \* position of start(): which statement runs next
  running,            \* self.running
  etag_incidents,     \* self.etag_incidents
  etag_components,    \* self.etag_components
  seen_incident_ids,  \* self.seen_incident_ids
  incident_states,    \* self.incident_states: id -> [status, last_updated]
  incidents_data,     \* local incidents_data of start()
  components_data,    \* local components_data of start()
  sleep_left,         \* ticks left of the running time.sleep
  out,                \* notifications printed since the current cycle began
  req,                \* the most recent HTTP request and its response status
  snap,               \* the tracker state when the current cycle began
  first_obs           \* whether the incidents collection has been observed yet

vars == <<pc, running, etag_incidents, etag_components, seen_incident_ids,
          incident_states, incidents_data, components_data, sleep_left, out,
          req, snap, first_obs>>

----------------------------------------------------------------------------
(* Bounds of the model *)

\* longest incidents collection a response carries
MaxLen == 2

\* length of time.sleep(self.poll_interval), in ticks
SleepTicks == 2

----------------------------------------------------------------------------
(* Values *)

\* a key that a JSON object does not have (dict.get then yields its default)
Absent == "<absent>"

\* the double-quote character
DQ == "\""

\* Python's None for an Optional[str] ETag
NoETag == <<"None">>

\* a response without an ETag header
NoHeader == <<"NoHeader">>

\* status of a request that raised RequestException (status is None)
StatusNone == 0

Ids == {"i1", "i2"}

\* what dict.get(key, default) returns for a field read from a JSON object
Get(v, default) == IF v = Absent THEN default ELSE v

\* truth value of a Python str or None
StrTruthy(s) == s # Absent /\ s # ""

\* truth value of an Optional[str] ETag
ETagTruthy(e) == e # NoETag /\ e # <<>>

\* Python's None for a response body
NoData == [kind |-> "None", incidents |-> <<>>, components |-> <<>>]

\* the JSON object {} (falsy)
EmptyDict == [kind |-> "empty", incidents |-> <<>>, components |-> <<>>]

\* a non-empty JSON object with neither an 'incidents' nor a 'components' key
OtherDict == [kind |-> "nokey", incidents |-> <<>>, components |-> <<>>]

IncidentsDoc(list) == [kind |-> "incidents", incidents |-> list, components |-> <<>>]

ComponentsDoc(list) == [kind |-> "components", incidents |-> <<>>, components |-> list]

\* truth value of an Optional[Dict]
DictTruthy(d) == d.kind \notin {"None", "empty"}

\* 'incidents' in incidents_data
HasIncidents(d) == d.kind = "incidents"

ListsUpTo(E, n) == UNION {[1..k -> E] : k \in 0..n}

EntriesOf(I, S, T) == [id : I, status : S, updated_at : T]

\* str.strip('"'): drop every leading and every trailing double quote
RECURSIVE lstrip(_)
lstrip(s) == IF s # <<>> /\ Head(s) = DQ THEN lstrip(Tail(s)) ELSE s

RECURSIVE rstrip(_)
rstrip(s) == IF s # <<>> /\ s[Len(s)] = DQ THEN rstrip(SubSeq(s, 1, Len(s) - 1)) ELSE s

strip(s) == rstrip(lstrip(s))

----------------------------------------------------------------------------
(* The HTTP exchange *)

\* what the server answers to session.get: 304 when the If-None-Match header
\* equals its current validator, 200 otherwise; 500 stands for any other code
ServerStatus(srv, if_none_match) ==
  IF srv.kind = "bad_status" THEN 500
  ELSE IF if_none_match # NoHeader /\ if_none_match = srv.etag THEN 304
  ELSE 200

\* _make_conditional_request(url, etag) against the server srv:
\* the tuple (response_data, new_etag, status_code)
make_conditional_request(etag, srv) ==
  LET if_none_match == IF ETagTruthy(etag) THEN etag ELSE NoHeader
      status_code == ServerStatus(srv, if_none_match)
  IN IF srv.kind = "exception"
       THEN [data |-> NoData, new_etag |-> etag, status |-> StatusNone,
             if_none_match |-> if_none_match]
     ELSE IF status_code = 304
       THEN [data |-> NoData, new_etag |-> etag, status |-> 304,
             if_none_match |-> if_none_match]
     ELSE IF status_code = 200
       THEN [data |-> srv.body,
             new_etag |-> strip(IF srv.etag = NoHeader THEN <<>> ELSE srv.etag),
             status |-> 200, if_none_match |-> if_none_match]
     ELSE [data |-> NoData, new_etag |-> etag, status |-> status_code,
           if_none_match |-> if_none_match]

\* fetch_incidents that forgets the stored validator when the fetch fails
fetch_incidents_forgets(srv) ==
  LET r == make_conditional_request(etag_incidents, srv)
  IN [ret |-> IF r.status = 200 THEN r.data ELSE NoData,
      etag |-> IF r.status = 200 /\ ETagTruthy(r.new_etag)
                 THEN r.new_etag
               ELSE IF r.status = 304 THEN etag_incidents ELSE NoETag,
      status |-> r.status, if_none_match |-> r.if_none_match,
      validated |-> r.status = 200 /\ ETagTruthy(r.new_etag)]

\* _fetch_incidents(): the returned data, the value self.etag_incidents has
\* afterwards, and the request made
fetch_incidents(srv) ==
  LET r == make_conditional_request(etag_incidents, srv)
  IN [ret |-> IF r.status = 200 THEN r.data ELSE NoData,
      etag |-> IF r.status = 200 /\ ETagTruthy(r.new_etag)
                 THEN r.new_etag ELSE etag_incidents,
      status |-> r.status, if_none_match |-> r.if_none_match,
      validated |-> r.status = 200 /\ ETagTruthy(r.new_etag)]

\* fetch_components that stores the ETag of a 200 response even when it is
\* empty
fetch_components_stores_empty(srv) ==
  LET r == make_conditional_request(etag_components, srv)
  IN [ret |-> IF r.status = 200 THEN r.data ELSE NoData,
      etag |-> IF r.status = 200 THEN r.new_etag ELSE etag_components,
      status |-> r.status, if_none_match |-> r.if_none_match,
      validated |-> r.status = 200 /\ ETagTruthy(r.new_etag)]

\* _fetch_components(): the same for self.etag_components
fetch_components(srv) ==
  LET r == make_conditional_request(etag_components, srv)
  IN [ret |-> IF r.status = 200 THEN r.data ELSE NoData,
      etag |-> IF r.status = 200 /\ ETagTruthy(r.new_etag)
                 THEN r.new_etag ELSE etag_components,
      status |-> r.status, if_none_match |-> r.if_none_match,
      validated |-> r.status = 200 /\ ETagTruthy(r.new_etag)]

\* the spec's name for the outcome of a fetch with this status code
Outcome(status) ==
  IF status = 200 THEN "changed" ELSE IF status = 304 THEN "unchanged" ELSE "failed"

----------------------------------------------------------------------------
(* Change detection *)

\* incident.get('status', 'unknown')
ObservedStatus(incident) == Get(incident.status, "unknown")

\* the record written to self.incident_states for an incident
StateRecord(incident) ==
  [status |-> ObservedStatus(incident),
   last_updated |-> Get(incident.updated_at, "")]

\* self.incident_states[incident_id] = record
SetState(states, incident_id, record) ==
  [k \in DOMAIN states \cup {incident_id} |->
     IF k = incident_id THEN record ELSE states[k]]

\* the notification _print_incident_update / _print_status_change prints for
\* entry number i: old_status is Absent for a new incident
Notification(kind, i, incident, old_status, comps) ==
  [kind |-> kind, entry |-> i, id |-> incident.id,
   status |-> ObservedStatus(incident), old_status |-> old_status,
   lookup |-> DictTruthy(comps)]

\* one call of a print function: it raises before printing anything when the
\* incident's first update is not an object (latest_update.get raises)
emit(acc, note, raises) ==
  IF raises THEN [acc EXCEPT !.raised = TRUE]
  ELSE [acc EXCEPT !.out = Append(acc.out, note)]

\* process_entry with the insertion of a new id into the store left out
process_entry_no_insert(acc, incident, i, comps, raises) ==
  LET incident_id == incident.id
      current_status == ObservedStatus(incident)
  IN IF ~StrTruthy(incident_id) THEN acc
     ELSE IF incident_id \notin acc.seen
       THEN emit(acc, Notification("NewIncident", i, incident, Absent, comps), raises)
     ELSE IF incident_id \in DOMAIN acc.states
       THEN LET old_status == acc.states[incident_id].status
            IN IF StrTruthy(old_status) /\ old_status # current_status
                 THEN emit([acc EXCEPT !.states = SetState(acc.states, incident_id,
                                                           StateRecord(incident))],
                           Notification("StatusChanged", i, incident, old_status,
                                        comps),
                           raises)
               ELSE acc
     ELSE acc

\* process_entry with the update of the stored status on a change left out
process_entry_no_update(acc, incident, i, comps, raises) ==
  LET incident_id == incident.id
      current_status == ObservedStatus(incident)
  IN IF ~StrTruthy(incident_id) THEN acc
     ELSE IF incident_id \notin acc.seen
       THEN emit([acc EXCEPT !.seen = acc.seen \cup {incident_id},
                             !.states = SetState(acc.states, incident_id,
                                                 StateRecord(incident))],
                 Notification("NewIncident", i, incident, Absent, comps),
                 raises)
     ELSE IF incident_id \in DOMAIN acc.states
       THEN LET old_status == acc.states[incident_id].status
            IN IF StrTruthy(old_status) /\ old_status # current_status
                 THEN emit(acc,
                           Notification("StatusChanged", i, incident, old_status,
                                        comps),
                           raises)
               ELSE acc
     ELSE acc

\* process_entry without the test of incident_id: an entry without id is
\* an incident like the others
process_entry_no_skip(acc, incident, i, comps, raises) ==
  LET incident_id == incident.id
      current_status == ObservedStatus(incident)
  IN IF incident_id \notin acc.seen
       THEN emit([acc EXCEPT !.seen = acc.seen \cup {incident_id},
                             !.states = SetState(acc.states, incident_id,
                                                 StateRecord(incident))],
                 Notification("NewIncident", i, incident, Absent, comps),
                 raises)
     ELSE IF incident_id \in DOMAIN acc.states
       THEN LET old_status == acc.states[incident_id].status
            IN IF StrTruthy(old_status) /\ old_status # current_status
                 THEN emit([acc EXCEPT !.states = SetState(acc.states, incident_id,
                                                           StateRecord(incident))],
                           Notification("StatusChanged", i, incident, old_status,
                                        comps),
                           raises)
               ELSE acc
     ELSE acc

\* the body of the for loop of _process_incidents for entry number i
process_entry(acc, incident, i, comps, raises) ==
  LET incident_id == incident.id
      current_status == ObservedStatus(incident)
  IN IF ~StrTruthy(incident_id) THEN acc
     ELSE IF incident_id \notin acc.seen
       THEN emit([acc EXCEPT !.seen = acc.seen \cup {incident_id},
                              !.states = SetState(acc.states, incident_id,
                                                  StateRecord(incident))],
                  Notification("NewIncident", i, incident, Absent, comps),
                  raises)
     ELSE IF incident_id \in DOMAIN acc.states
       THEN LET old_status == acc.states[incident_id].status
            IN IF StrTruthy(old_status) /\ old_status # current_status
                 THEN emit([acc EXCEPT !.states = SetState(acc.states, incident_id,
                                                            StateRecord(incident))],
                            Notification("StatusChanged", i, incident, old_status,
                                         comps),
                            raises)
               ELSE acc
     ELSE acc

RECURSIVE process_loop(_, _, _, _, _)
process_loop(acc, incidents, i, comps, bad) ==
  IF i > Len(incidents) \/ acc.raised THEN acc
  ELSE process_loop(process_entry(acc, incidents[i], i, comps, i = bad),
                    incidents, i + 1, comps, bad)

\* _process_incidents that also forgets the incidents the collection no
\* longer lists
process_incidents_prunes(seen, states, printed, data, comps, bad) ==
  LET acc == [seen |-> seen, states |-> states, out |-> printed, raised |-> FALSE]
      listed == {data.incidents[i].id : i \in 1..Len(data.incidents)}
      r == process_loop(acc, data.incidents, 1, comps, bad)
  IN IF ~DictTruthy(data) \/ ~HasIncidents(data) THEN acc
     ELSE [r EXCEPT !.seen = r.seen \cap listed,
                    !.states = [id \in (DOMAIN r.states) \cap listed |-> r.states[id]]]

\* _process_incidents(incidents_data, components_data) from the store
\* (seen, states) with the notifications printed so far: the store and the
\* notifications afterwards, and whether it raised.  bad is the number of the
\* entry whose rendering raises (0: none)
process_incidents(seen, states, printed, data, comps, bad) ==
  LET acc == [seen |-> seen, states |-> states, out |-> printed, raised |-> FALSE]
  IN IF ~DictTruthy(data) \/ ~HasIncidents(data) THEN acc
     ELSE process_loop(acc, data.incidents, 1, comps, bad)

\* the loop of start() that marks the incidents of the initial fetch as seen
RECURSIVE seed_loop(_, _, _)
seed_loop(acc, incidents, i) ==
  IF i > Len(incidents) THEN acc
  ELSE seed_loop(IF StrTruthy(incidents[i].id)
                   THEN [acc EXCEPT !.seen = acc.seen \cup {incidents[i].id},
                                    !.states = SetState(acc.states, incidents[i].id,
                                                        StateRecord(incidents[i]))]
                   ELSE acc,
                 incidents, i + 1)

\* seed that runs the change detection of the poll loop on the initial fetch
seed_detects(seen, states, printed, data) ==
  process_incidents(seen, states, printed, data, NoData, 0)

\* seed that marks the incidents as seen without recording their state
seed_marks_only(seen, states, printed, data) ==
  LET acc == [seen |-> seen, states |-> states, out |-> printed, raised |-> FALSE]
  IN IF DictTruthy(data) /\ HasIncidents(data)
       THEN [seed_loop(acc, data.incidents, 1) EXCEPT !.states = states]
     ELSE acc

\* the seeding of start() after the initial fetch
seed(seen, states, printed, data) ==
  LET acc == [seen |-> seen, states |-> states, out |-> printed, raised |-> FALSE]
  IN IF DictTruthy(data) /\ HasIncidents(data)
       THEN seed_loop(acc, data.incidents, 1)
     ELSE acc

----------------------------------------------------------------------------
(* What the status page serves *)

\* the status values of the served incidents
UpstreamStatuses == {"investigating", "resolved"}

\* the updated_at values of the served incidents
UpstreamTimes == {"t1"}

\* an incident entry of the served collection; id Absent: an entry without id
UpstreamEntries == EntriesOf(Ids \cup {Absent}, UpstreamStatuses, UpstreamTimes)

\* the ETag header of a response: none, an unquoted token, a quoted token
SrvETags == {NoHeader, <<"a">>, <<DQ, "a", DQ>>}

\* a server that answers neither 200 nor 304, or does not answer at all
FailingServers ==
  {[kind |-> k, etag |-> NoHeader, body |-> NoData] : k \in {"bad_status", "exception"}}

\* the states of the incidents resource at the moment of a request
IncidentServers ==
  {[kind |-> "ok", etag |-> e, body |-> b] :
     e \in SrvETags,
     b \in {IncidentsDoc(l) : l \in ListsUpTo(UpstreamEntries, MaxLen)}
           \cup {OtherDict}}
  \cup FailingServers

\* the states of the components resource at the moment of a request
ComponentServers ==
  {[kind |-> "ok", etag |-> e,
    body |-> ComponentsDoc(<<[id |-> "c1", name |-> "API"]>>)] : e \in SrvETags}
  \cup FailingServers

----------------------------------------------------------------------------
(* start(): the scheduler *)

Snapshot(phase) ==
  [phase |-> phase, seen |-> seen_incident_ids, states |-> incident_states,
   etag_incidents |-> etag_incidents, etag_components |-> etag_components,
   inc |-> "pending", comp_fetched |-> FALSE, raised |-> FALSE,
   after_stop |-> ~running]

\* a request, its response status, and how many requests have been started
\* since the stop flag was set
Request(url, f) ==
  [url |-> url, if_none_match |-> f.if_none_match, status |-> f.status,
   validated |-> f.validated,
   late |-> IF running THEN 0 ELSE req.late + 1]

NoRequest ==
  [url |-> "none", if_none_match |-> NoHeader, status |-> StatusNone,
   validated |-> FALSE, late |-> 0]

\* the first 200 response that carries an incidents collection
Observe(f) ==
  IF first_obs = "none" /\ f.status = 200 /\ HasIncidents(f.ret)
    THEN "now" ELSE first_obs

Init ==
  /\ pc = "boot_fetch_incidents"
  /\ running = TRUE
  /\ etag_incidents = NoETag
  /\ etag_components = NoETag
  /\ seen_incident_ids = {}
  /\ incident_states = [k \in {} |-> StateRecord([status |-> Absent, updated_at |-> Absent])]
  /\ incidents_data = NoData
  /\ components_data = NoData
  /\ sleep_left = 0
  /\ out = <<>>
  /\ req = NoRequest
  /\ snap = Snapshot("boot")
  /\ first_obs = "none"

\* _signal_handler: SIGINT or SIGTERM is delivered between two statements
Signal ==
  /\ pc # "stopped"
  /\ running' = FALSE
  /\ UNCHANGED <<pc, etag_incidents, etag_components, seen_incident_ids,
                 incident_states, incidents_data, components_data, sleep_left,
                 out, req, snap, first_obs>>

\* incidents_data = self._fetch_incidents()          (initial fetch)
BootFetchIncidents ==
  /\ pc = "boot_fetch_incidents"
  /\ \E srv \in IncidentServers :
       LET f == fetch_incidents(srv)
       IN /\ incidents_data' = f.ret
          /\ etag_incidents' = f.etag
          /\ req' = Request("incidents", f)
          /\ snap' = [snap EXCEPT !.inc = Outcome(f.status)]
          /\ first_obs' = Observe(f)
  /\ pc' = "boot_fetch_components"
  /\ UNCHANGED <<running, etag_components, seen_incident_ids, incident_states,
                 components_data, sleep_left, out>>

\* components_data = self._fetch_components()        (initial fetch)
BootFetchComponents ==
  /\ pc = "boot_fetch_components"
  /\ \E srv \in ComponentServers :
       LET f == fetch_components(srv)
       IN /\ components_data' = f.ret
          /\ etag_components' = f.etag
          /\ req' = Request("components", f)
  /\ snap' = [snap EXCEPT !.comp_fetched = TRUE]
  /\ pc' = "boot_seed"
  /\ UNCHANGED <<running, etag_incidents, seen_incident_ids, incident_states,
                 incidents_data, sleep_left, out, first_obs>>

\* if incidents_data: mark all existing incidents as seen
BootSeed ==
  /\ pc = "boot_seed"
  /\ LET r == seed(seen_incident_ids, incident_states, out, incidents_data)
     IN /\ seen_incident_ids' = r.seen
        /\ incident_states' = r.states
        /\ out' = r.out
  /\ pc' = "loop_top"
  /\ UNCHANGED <<running, etag_incidents, etag_components, incidents_data,
                 components_data, sleep_left, req, snap, first_obs>>

\* LoopTop without the test of self.running
LoopTop_ignores_flag ==
  /\ pc = "loop_top"
  /\ pc' = "fetch_incidents"
  /\ out' = <<>>
  /\ snap' = Snapshot("poll")
  /\ first_obs' = IF first_obs = "now" THEN "past" ELSE first_obs
  /\ incidents_data' = NoData
  /\ components_data' = NoData
  /\ UNCHANGED <<running, etag_incidents, etag_components, seen_incident_ids,
                 incident_states, sleep_left, req>>

\* while self.running:
\* (the two locals are assigned again before they are read: from here on
\* they are kept as NoData, which no statement can tell from their old value)
LoopTop ==
  /\ pc = "loop_top"
  /\ IF running
       THEN /\ pc' = "fetch_incidents"
            /\ out' = <<>>
            /\ snap' = Snapshot("poll")
            /\ first_obs' = IF first_obs = "now" THEN "past" ELSE first_obs
       ELSE /\ pc' = "stopped"
            /\ UNCHANGED <<out, snap, first_obs>>
  /\ incidents_data' = NoData
  /\ components_data' = NoData
  /\ UNCHANGED <<running, etag_incidents, etag_components, seen_incident_ids,
                 incident_states, sleep_left, req>>

\* FetchIncidents that goes on to the components fetch whatever the
\* incidents fetch returned
FetchIncidents_always_components ==
  /\ pc = "fetch_incidents"
  /\ \E srv \in IncidentServers :
       LET f == fetch_incidents(srv)
       IN /\ incidents_data' = f.ret
          /\ etag_incidents' = f.etag
          /\ req' = Request("incidents", f)
          /\ snap' = [snap EXCEPT !.inc = Outcome(f.status)]
          /\ first_obs' = Observe(f)
          /\ pc' = "fetch_components"
          /\ UNCHANGED components_data
  /\ UNCHANGED <<running, etag_components, seen_incident_ids, incident_states,
                 sleep_left, out>>

\* incidents_data = self._fetch_incidents(); if not incidents_data:
\* components_data = None
FetchIncidents ==
  /\ pc = "fetch_incidents"
  /\ \E srv \in IncidentServers :
       LET f == fetch_incidents(srv)
       IN /\ incidents_data' = f.ret
          /\ etag_incidents' = f.etag
          /\ req' = Request("incidents", f)
          /\ snap' = [snap EXCEPT !.inc = Outcome(f.status)]
          /\ first_obs' = Observe(f)
          /\ IF DictTruthy(f.ret)
               THEN pc' = "fetch_components" /\ UNCHANGED components_data
               ELSE pc' = "wait_check" /\ components_data' = NoData
  /\ UNCHANGED <<running, etag_components, seen_incident_ids, incident_states,
                 sleep_left, out>>

\* components_data = self._fetch_components()        (incidents changed)
FetchComponents ==
  /\ pc = "fetch_components"
  /\ \E srv \in ComponentServers :
       LET f == fetch_components(srv)
       IN /\ components_data' = f.ret
          /\ etag_components' = f.etag
          /\ req' = Request("components", f)
  /\ snap' = [snap EXCEPT !.comp_fetched = TRUE]
  /\ pc' = "process"
  /\ UNCHANGED <<running, etag_incidents, seen_incident_ids, incident_states,
                 incidents_data, sleep_left, out, first_obs>>

\* a poll cycle that runs detection only when it has a components payload
ProcessIncidents_needs_components ==
  /\ pc = "process"
  /\ \E bad \in 0..Len(incidents_data.incidents) :
       LET r == process_incidents(seen_incident_ids, incident_states, out,
                                  IF DictTruthy(components_data)
                                    THEN incidents_data ELSE NoData,
                                  components_data, bad)
       IN /\ seen_incident_ids' = r.seen
          /\ incident_states' = r.states
          /\ out' = r.out
          /\ snap' = [snap EXCEPT !.raised = r.raised]
          /\ pc' = IF r.raised THEN "except_check" ELSE "wait_check"
  /\ UNCHANGED <<running, etag_incidents, etag_components, incidents_data,
                 components_data, sleep_left, req, first_obs>>

\* self._process_incidents(incidents_data, components_data); an exception
\* it raises is caught by "except Exception"
ProcessIncidents ==
  /\ pc = "process"
  /\ \E bad \in 0..Len(incidents_data.incidents) :
       LET r == process_incidents(seen_incident_ids, incident_states, out,
                                  incidents_data, components_data, bad)
       IN /\ seen_incident_ids' = r.seen
          /\ incident_states' = r.states
          /\ out' = r.out
          /\ snap' = [snap EXCEPT !.raised = r.raised]
          /\ pc' = IF r.raised THEN "except_check" ELSE "wait_check"
  /\ UNCHANGED <<running, etag_incidents, etag_components, incidents_data,
                 components_data, sleep_left, req, first_obs>>

\* if self.running: time.sleep(self.poll_interval)   (end of the try block)
WaitCheck ==
  /\ pc = "wait_check"
  /\ IF running
       THEN pc' = "sleep" /\ sleep_left' = SleepTicks
       ELSE pc' = "loop_top" /\ UNCHANGED sleep_left
  /\ incidents_data' = NoData
  /\ components_data' = NoData
  /\ UNCHANGED <<running, etag_incidents, etag_components, seen_incident_ids,
                 incident_states, out, req, snap, first_obs>>

\* ExceptCheck without the except clause: the exception ends start()
ExceptCheck_propagates ==
  /\ pc = "except_check"
  /\ pc' = "stopped"
  /\ UNCHANGED <<running, etag_incidents, etag_components, seen_incident_ids,
                 incident_states, incidents_data, components_data, sleep_left,
                 out, req, snap, first_obs>>

\* except Exception: if self.running: time.sleep(self.poll_interval)
ExceptCheck ==
  /\ pc = "except_check"
  /\ IF running
       THEN pc' = "sleep" /\ sleep_left' = SleepTicks
       ELSE pc' = "loop_top" /\ UNCHANGED sleep_left
  /\ incidents_data' = NoData
  /\ components_data' = NoData
  /\ UNCHANGED <<running, etag_incidents, etag_components, seen_incident_ids,
                 incident_states, out, req, snap, first_obs>>

\* time.sleep goes on for one more tick; a signal handler that returns does
\* not end it (the sleep is resumed for the time that is left)
SleepTick ==
  /\ pc = "sleep"
  /\ IF sleep_left > 1
       THEN sleep_left' = sleep_left - 1 /\ UNCHANGED pc
       ELSE sleep_left' = 0 /\ pc' = "loop_top"
  /\ UNCHANGED <<running, etag_incidents, etag_components, seen_incident_ids,
                 incident_states, incidents_data, components_data, out, req,
                 snap, first_obs>>

Next ==
  \/ Signal
  \/ BootFetchIncidents
  \/ BootFetchComponents
  \/ BootSeed
  \/ LoopTop
  \/ FetchIncidents
  \/ FetchComponents
  \/ ProcessIncidents
  \/ WaitCheck
  \/ ExceptCheck
  \/ SleepTick

Spec == Init /\ [][Next]_vars

----------------------------------------------------------------------------
(* Change detection on its own: one pass of the poll loop over every small  *)
(* store and every small collection, and a second pass over the same        *)
(* collection                                                               *)

\* the status fields of an observed incident: no status key, empty, two tokens
DetectStatuses == {Absent, "", "investigating", "resolved"}

DetectTimes == {"t1", "t2"}

DetectEntries == EntriesOf(Ids \cup {Absent}, DetectStatuses, DetectTimes)

\* the stores an earlier pass or the seeding can have left behind
DetectStores ==
  UNION {[S -> [status : {"unknown", "", "investigating", "resolved"},
                last_updated : {"t1"}]] : S \in SUBSET Ids}

\* start() is about to call _process_incidents in a poll cycle whose
\* incidents fetch returned a collection and whose components fetch failed
InitDetect ==
  /\ pc = "process"
  /\ running = TRUE
  /\ etag_incidents = NoETag
  /\ etag_components = NoETag
  /\ incident_states \in DetectStores
  /\ seen_incident_ids = DOMAIN incident_states
  /\ incidents_data \in {IncidentsDoc(l) : l \in ListsUpTo(DetectEntries, MaxLen)}
  /\ components_data = NoData
  /\ sleep_left = 0
  /\ out = <<>>
  /\ req = [url |-> "components", if_none_match |-> NoHeader,
            status |-> StatusNone, validated |-> FALSE, late |-> 0]
  /\ snap = [Snapshot("poll") EXCEPT !.inc = "changed", !.comp_fetched = TRUE]
  /\ first_obs = "past"

\* the next poll cycle: the sleep ends, the incidents fetch returns the same
\* collection again (the server sends no ETag), the components fetch fails
\* again, and _process_incidents runs on it
DetectAgain ==
  /\ pc = "wait_check"
  /\ snap.phase = "poll"
  /\ running
  /\ \E bad \in 0..Len(incidents_data.incidents) :
       LET r == process_incidents(seen_incident_ids, incident_states, <<>>,
                                  incidents_data, components_data, bad)
       IN /\ seen_incident_ids' = r.seen
          /\ incident_states' = r.states
          /\ out' = r.out
          /\ pc' = IF r.raised THEN "except_check" ELSE "wait_check"
          /\ snap' = [Snapshot("repeat") EXCEPT !.inc = "changed",
                                                !.comp_fetched = TRUE,
                                                !.raised = r.raised]
  /\ UNCHANGED <<running, etag_incidents, etag_components, incidents_data,
                 components_data, sleep_left, req, first_obs>>

NextDetect ==
  \/ ProcessIncidents
  \/ DetectAgain

SpecDetect == InitDetect /\ [][NextDetect]_vars

----------------------------------------------------------------------------
(* Claims about change detection *)

\* the collection the current detection pass works on
Fetched == incidents_data.incidents

\* a detection pass of a poll cycle has run to its end without raising
PassDone == pc = "wait_check" /\ HasIncidents(incidents_data)

\* an earlier / a later entry of the collection has the id of entry i
EarlierSame(i) == \E j \in 1..(i - 1) : Fetched[j].id = Fetched[i].id

LaterSame(i) == \E j \in (i + 1)..Len(Fetched) : Fetched[j].id = Fetched[i].id

\* the positions in out of the notifications of this kind for entry i
NotesFor(kind, i) == {k \in 1..Len(out) : out[k].entry = i /\ out[k].kind = kind}

\* the id of entry i is not in the store when the pass comes to entry i
AbsentWhenProcessed(i) == Fetched[i].id \notin snap.seen /\ ~EarlierSame(i)

\* C1: for every entry with an id that a detection pass of a poll cycle
\* processes, a NewIncident notification is printed for it exactly when its
\* id is not in the store at that moment, and then exactly one; the store
\* then contains the id, with the observed status (until a later entry of
\* the same id is processed)
C1_NewIncidentIffAbsent ==
  PassDone =>
    \A i \in 1..Len(Fetched) :
      StrTruthy(Fetched[i].id) =>
        /\ Cardinality(NotesFor("NewIncident", i))
             = (IF AbsentWhenProcessed(i) THEN 1 ELSE 0)
        /\ \A k \in NotesFor("NewIncident", i) :
             out[k].id = Fetched[i].id /\ out[k].status = ObservedStatus(Fetched[i])
        /\ AbsentWhenProcessed(i) =>
             /\ Fetched[i].id \in seen_incident_ids
             /\ Fetched[i].id \in DOMAIN incident_states
             /\ ~LaterSame(i) =>
                  incident_states[Fetched[i].id].status = ObservedStatus(Fetched[i])

\* a pass that met an unseen id next to a seen one: one NewIncident, for the
\* unseen id, which is now in the store
C1_Witness ==
  /\ PassDone
  /\ snap.phase = "poll"
  /\ Len(Fetched) = 2
  /\ Fetched[1].id \in snap.seen
  /\ Fetched[2].id \in Ids \ snap.seen
  /\ NotesFor("NewIncident", 2) # {}
  /\ Fetched[2].id \in seen_incident_ids

\* the status the store holds for the id of entry i when the pass comes to
\* it, for an entry that is the first of its id in the collection
StoredStatus(i) == snap.states[Fetched[i].id].status

\* C2 (as claimed): for every entry whose id is already in the store, a
\* StatusChanged notification is printed exactly when the observed status is
\* not equal to the stored one, whatever the two status values are; it is one
\* notification, it carries the stored status, and the store then holds the
\* observed status
C2_StatusChangedIffDiffers ==
  PassDone =>
    \A i \in 1..Len(Fetched) :
      (StrTruthy(Fetched[i].id) /\ Fetched[i].id \in snap.seen /\ ~EarlierSame(i)) =>
        /\ Cardinality(NotesFor("StatusChanged", i))
             = (IF ObservedStatus(Fetched[i]) # StoredStatus(i) THEN 1 ELSE 0)
        /\ \A k \in NotesFor("StatusChanged", i) : out[k].old_status = StoredStatus(i)
        /\ ~LaterSame(i) =>
             incident_states[Fetched[i].id].status = ObservedStatus(Fetched[i])

\* the ids of the collection are pairwise distinct
DistinctIds ==
  \A i, j \in 1..Len(Fetched) :
    (i # j /\ StrTruthy(Fetched[i].id)) => Fetched[i].id # Fetched[j].id

\* C5: a second detection pass over the same collection of pairwise distinct
\* ids, with no store update in between, prints no notification and leaves
\* the store as the first pass left it
C5_SecondPassSilent ==
  (PassDone /\ snap.phase = "repeat" /\ DistinctIds) =>
    /\ out = <<>>
    /\ seen_incident_ids = snap.seen
    /\ \A id \in seen_incident_ids :
         incident_states[id].status = snap.states[id].status

\* a second pass over two incidents with distinct ids, both in the store
\* with the observed status since the first pass
C5_Witness ==
  /\ PassDone
  /\ snap.phase = "repeat"
  /\ DistinctIds
  /\ Len(Fetched) = 2
  /\ \A i \in 1..2 :
       /\ Fetched[i].id \in seen_incident_ids
       /\ incident_states[Fetched[i].id].status = ObservedStatus(Fetched[i])
  /\ out = <<>>

----------------------------------------------------------------------------
(* Claims about the scheduler *)

\* the ids of the entries of the collection that have one
FetchedIds == {Fetched[i].id : i \in {j \in 1..Len(Fetched) : StrTruthy(Fetched[j].id)}}

\* start() is about to enter the while loop after an initial fetch that
\* returned an incidents collection
BootstrapDone ==
  pc = "loop_top" /\ snap.phase = "boot" /\ HasIncidents(incidents_data)

\* C3: no notification is printed during bootstrap, and when the initial
\* fetch returned a collection the store holds, on entering the poll loop,
\* exactly the ids of that collection, each with the status the collection
\* gives it
C3_BootstrapSeedsSilently ==
  /\ snap.phase = "boot" => out = <<>>
  /\ BootstrapDone =>
       /\ seen_incident_ids = FetchedIds
       /\ DOMAIN incident_states = FetchedIds
       /\ \A i \in 1..Len(Fetched) :
            (StrTruthy(Fetched[i].id) /\ ~LaterSame(i)) =>
              incident_states[Fetched[i].id].status = ObservedStatus(Fetched[i])

\* a bootstrap over two incidents: both in the store, nothing printed
C3_Witness ==
  /\ BootstrapDone
  /\ Len(Fetched) = 2
  /\ seen_incident_ids = Ids
  /\ incident_states[Fetched[1].id].status # incident_states[Fetched[2].id].status
  /\ out = <<>>

\* C4 (as claimed): in the bootstrap or poll cycle in which the incidents
\* collection is observed for the first time, no notification is printed
C4_FirstObservationSilent == first_obs = "now" => out = <<>>

\* the frame of a poll cycle: nothing printed, store and validators as they
\* were when the cycle began, no components fetch
CycleLeftNoTrace ==
  /\ out = <<>>
  /\ seen_incident_ids = snap.seen
  /\ incident_states = snap.states
  /\ etag_incidents = snap.etag_incidents
  /\ etag_components = snap.etag_components
  /\ ~snap.comp_fetched

\* C6: in a poll cycle whose incidents fetch returns 304, nothing is printed,
\* the store and both validators stay as they were, and no components fetch
\* is made
C6_UnchangedCycleIsInert ==
  (snap.phase = "poll" /\ snap.inc = "unchanged") => CycleLeftNoTrace

\* a cycle that got 304 with incidents in the store and is now asleep
C6_Witness ==
  /\ snap.phase = "poll"
  /\ snap.inc = "unchanged"
  /\ req.url = "incidents"
  /\ req.status = 304
  /\ seen_incident_ids # {}
  /\ pc = "sleep"

\* C7: in a poll cycle whose incidents fetch fails (an exception of the
\* transport, or a status code other than 200 and 304), no exception leaves
\* the fetch, nothing is printed, the store and both validators stay as they
\* were, and the scheduler goes on to the sleep and the next loop test
C7_FailedFetchIsInert ==
  (snap.phase = "poll" /\ snap.inc = "failed") =>
    /\ CycleLeftNoTrace
    /\ ~snap.raised
    /\ pc \in {"wait_check", "sleep", "loop_top", "stopped"}
    /\ pc = "stopped" => ~running

\* a cycle whose incidents fetch failed while a validator and incidents were
\* stored, now asleep
C7_Witness ==
  /\ snap.phase = "poll"
  /\ snap.inc = "failed"
  /\ req.url = "incidents"
  /\ req.status \in {StatusNone, 500}
  /\ ETagTruthy(etag_incidents)
  /\ seen_incident_ids # {}
  /\ pc = "sleep"

\* C8: start() returns only after the stop flag was set; after an exception
\* in a poll cycle the scheduler sleeps the whole poll interval and then
\* goes to the loop test, which starts the next cycle while the flag is unset
C8_LoopSurvivesErrors ==
  /\ [](pc = "stopped" => ~running)
  /\ [][(pc = "except_check" /\ running /\ pc' # pc) =>
          (pc' = "sleep" /\ sleep_left' = SleepTicks)]_vars
  /\ [][(pc = "sleep" /\ pc' # pc) => pc' = "loop_top"]_vars
  /\ [][(pc = "loop_top" /\ running /\ pc' # pc) => pc' = "fetch_incidents"]_vars

\* a cycle in which _process_incidents raised, now asleep for the whole
\* interval with the flag unset
C8_Witness ==
  /\ snap.raised
  /\ running
  /\ pc = "sleep"
  /\ sleep_left = SleepTicks

\* C9 (as claimed): no fetch request is started once the stop flag is set
C9_NoFetchAfterStop == req.late = 0

\* C9 (amended): once the stop flag is set no poll cycle is started, so the
\* requests started after it are those of the bootstrap or poll cycle that
\* was running when the signal arrived: two at most
C9_NoCycleAfterStop ==
  /\ ~snap.after_stop
  /\ req.late <= 2
  /\ pc = "stopped" => ~running

\* the signal arrived before the incidents fetch of a poll cycle: that fetch
\* and the components fetch were still made, then start() returned
C9_Witness ==
  /\ pc = "stopped"
  /\ snap.phase = "poll"
  /\ req.url = "components"
  /\ req.late = 2

\* C10 (as claimed): when the stop flag is set while the scheduler sleeps,
\* the next step of the scheduler leaves the sleep
C10_SleepInterrupted ==
  [][(pc = "sleep" /\ ~running) => pc' # "sleep"]_vars

----------------------------------------------------------------------------
(* Termination *)

\* a step of start() itself: every action but the delivery of a signal
SchedulerStep ==
  \/ BootFetchIncidents
  \/ BootFetchComponents
  \/ BootSeed
  \/ LoopTop
  \/ FetchIncidents
  \/ FetchComponents
  \/ ProcessIncidents
  \/ WaitCheck
  \/ ExceptCheck
  \/ SleepTick

\* start() runs on: a request ends within its timeout of 10 s, a sleep ends
\* after poll_interval, and every other statement returns
SpecFair == Spec /\ WF_vars(SchedulerStep)

\* C11: once the stop flag is set start() eventually returns; the loop test
\* that sees the flag set starts no poll cycle; and after the return nothing
\* happens any more
C11_TerminatesOnCancel ==
  /\ (~running) ~> (pc = "stopped")
  /\ [][(pc = "loop_top" /\ ~running /\ pc' # pc) => pc' = "stopped"]_vars
  /\ [][pc = "stopped" => pc' = "stopped"]_vars

\* start() has returned after a signal that arrived while no request of the
\* cycle was still to be made, with incidents in the store
C11_Witness ==
  /\ pc = "stopped"
  /\ ~running
  /\ snap.phase = "poll"
  /\ seen_incident_ids # {}
  /\ req.late = 0

----------------------------------------------------------------------------
(* Further claims about change detection *)

\* entry i is the only entry of its id, the id is in the store when the pass
\* begins, and the observed status is the stored one
SameStatusEntry(i) ==
  /\ StrTruthy(Fetched[i].id)
  /\ Fetched[i].id \in snap.seen
  /\ ~EarlierSame(i)
  /\ ~LaterSame(i)
  /\ ObservedStatus(Fetched[i]) = StoredStatus(i)

\* C12: for an incident in the store whose observed status is
\* the stored one, nothing is printed and the record's last_updated becomes
\* the observed updated_at
C12_TimestampRefreshed ==
  PassDone =>
    \A i \in 1..Len(Fetched) :
      SameStatusEntry(i) =>
        /\ NotesFor("NewIncident", i) \cup NotesFor("StatusChanged", i) = {}
        /\ incident_states[Fetched[i].id].last_updated = Get(Fetched[i].updated_at, "")

----------------------------------------------------------------------------
(* The store *)

\* _process_incidents has returned or raised in this poll cycle
PassEnded ==
  /\ pc \in {"wait_check", "except_check"}
  /\ snap.phase = "poll"
  /\ HasIncidents(incidents_data)

\* C13: the store only grows, an id enters it only from the payload of a
\* successful incidents fetch, and an incident of the store that a later
\* collection does not list is not notified and keeps its record
C13_StoreOnlyGrows ==
  /\ [][/\ seen_incident_ids \subseteq seen_incident_ids'
        /\ DOMAIN incident_states \subseteq DOMAIN incident_states'
        /\ \A id \in seen_incident_ids' \ seen_incident_ids :
             /\ DictTruthy(incidents_data)
             /\ id \in FetchedIds]_vars
  /\ [](seen_incident_ids # {} => first_obs # "none")
  /\ [](PassEnded =>
          \A id \in snap.seen \ FetchedIds :
            /\ id \in seen_incident_ids
            /\ incident_states[id] = snap.states[id]
            /\ \A k \in 1..Len(out) : out[k].id # id)

\* a poll cycle whose collection no longer lists a stored incident and
\* announces another one
C13_Witness ==
  /\ PassEnded
  /\ "i1" \in snap.seen \ FetchedIds
  /\ "i2" \in FetchedIds \ snap.seen
  /\ seen_incident_ids = {"i1", "i2"}
  /\ Len(out) = 1

----------------------------------------------------------------------------
(* Failure of the components fetch *)

\* the poll cycle fetched a collection, then failed to fetch the components,
\* and _process_incidents has returned
ComponentsFailedPass ==
  /\ pc = "wait_check"
  /\ snap.phase = "poll"
  /\ HasIncidents(incidents_data)
  /\ snap.comp_fetched
  /\ req.url = "components"
  /\ Outcome(req.status) = "failed"

\* what the same pass does when the components fetch succeeds
WithComponents ==
  process_incidents(snap.seen, snap.states, <<>>, incidents_data,
                    ComponentsDoc(<<[id |-> "c1", name |-> "API"]>>), 0)

\* C14: when the components fetch fails after a successful incidents fetch,
\* detection runs all the same: the store is updated and the notifications
\* are those of a pass with components, rendered without the name lookup
C14_ComponentFailureHarmless ==
  ComponentsFailedPass =>
    /\ seen_incident_ids = WithComponents.seen
    /\ incident_states = WithComponents.states
    /\ Len(out) = Len(WithComponents.out)
    /\ \A k \in 1..Len(out) :
         /\ ~out[k].lookup
         /\ out[k] = [WithComponents.out[k] EXCEPT !.lookup = FALSE]

\* a cycle whose components fetch failed and that announced a new incident
\* and a status change
C14_Witness ==
  /\ ComponentsFailedPass
  /\ Len(out) = 2
  /\ {out[1].kind, out[2].kind} = {"NewIncident", "StatusChanged"}
  /\ WithComponents.out[1].lookup

----------------------------------------------------------------------------
(* Entries without an id *)

HasId(incident) == StrTruthy(incident.id)

\* the fetched collection without its entries that have no id
WellFormed == IncidentsDoc(SelectSeq(Fetched, HasId))

\* the position entry i of the fetched collection has in WellFormed
Rank(i) == Cardinality({j \in 1..i : HasId(Fetched[j])})

\* the pass of this cycle over WellFormed
PassOverWellFormed ==
  process_incidents(snap.seen, snap.states, <<>>, WellFormed, components_data, 0)

\* the seeding over WellFormed
SeedOverWellFormed == seed(snap.seen, snap.states, <<>>, WellFormed)

\* C15: an entry without id is skipped, leaving no notification and no
\* record, and the seeding and the detection pass do to the other entries
\* what they do to the collection without the entries that have no id
C15_MalformedEntriesSkipped ==
  /\ (PassEnded /\ pc = "wait_check") =>
       /\ seen_incident_ids = PassOverWellFormed.seen
       /\ incident_states = PassOverWellFormed.states
       /\ Len(out) = Len(PassOverWellFormed.out)
       /\ \A k \in 1..Len(out) :
            /\ HasId(Fetched[out[k].entry])
            /\ Rank(out[k].entry) = PassOverWellFormed.out[k].entry
            /\ out[k] = [PassOverWellFormed.out[k] EXCEPT !.entry = out[k].entry]
  /\ BootstrapDone =>
       /\ seen_incident_ids = SeedOverWellFormed.seen
       /\ incident_states = SeedOverWellFormed.states
       /\ out = <<>>
  /\ \A id \in seen_incident_ids \cup DOMAIN incident_states : StrTruthy(id)

\* a pass over a collection whose first entry has no id and whose second
\* entry is a new incident
C15_Witness ==
  /\ PassEnded /\ pc = "wait_check"
  /\ Len(Fetched) = 2
  /\ ~HasId(Fetched[1])
  /\ HasId(Fetched[2])
  /\ Len(out) = 1
  /\ out[1].kind = "NewIncident"
  /\ out[1].entry = 2
  /\ PassOverWellFormed.out[1].entry = 1

----------------------------------------------------------------------------
(* The stored validators *)

\* this step is a fetch of the incidents resource
IncidentsFetchStep ==
  pc \in {"boot_fetch_incidents", "fetch_incidents"} /\ pc' # pc

\* this step is a fetch of the components resource
ComponentsFetchStep ==
  pc \in {"boot_fetch_components", "fetch_components"} /\ pc' # pc

\* C16: a stored validator changes only in a fetch of its own resource that
\* is answered 200 with a non-empty validator; a 200 response without one
\* hands its payload on and leaves the stored validator
C16_ValidatorFrame ==
  [][/\ etag_incidents' # etag_incidents =>
          /\ IncidentsFetchStep
          /\ req'.url = "incidents" /\ req'.status = 200 /\ req'.validated
          /\ ETagTruthy(etag_incidents')
     /\ etag_components' # etag_components =>
          /\ ComponentsFetchStep
          /\ req'.url = "components" /\ req'.status = 200 /\ req'.validated
          /\ ETagTruthy(etag_components')
     /\ (IncidentsFetchStep /\ req'.status = 200 /\ ~req'.validated) =>
          /\ etag_incidents' = etag_incidents
          /\ DictTruthy(incidents_data')
          /\ pc = "fetch_incidents" => pc' = "fetch_components"
     /\ (ComponentsFetchStep /\ req'.status = 200 /\ ~req'.validated) =>
          /\ etag_components' = etag_components
          /\ DictTruthy(components_data')
          /\ pc' \in {"boot_seed", "process"}]_vars

\* a components fetch answered 200 without validator while one is stored,
\* in a cycle whose incidents fetch stored a validator
C16_Witness ==
  /\ pc = "process"
  /\ req.url = "components" /\ req.status = 200 /\ ~req.validated
  /\ ETagTruthy(etag_components)
  /\ DictTruthy(components_data)
  /\ ETagTruthy(etag_incidents)
  /\ ~ETagTruthy(snap.etag_incidents)

----------------------------------------------------------------------------
(* The validator round trip: fetches against a server whose ETag header    *)
(* takes the forms of RFC 7232                                             *)

\* the ETag header of a response: none, a bare token, a quoted entity tag,
\* a weak entity tag, the empty entity tag
ETagHeaders ==
  {NoHeader, <<"a">>, <<"b">>, <<DQ, "a", DQ>>, <<DQ, "b", DQ>>,
   <<"W", "/", DQ, "a", DQ>>, <<DQ, DQ>>}

\* the states of a resource at the moment of a request
ETagServers ==
  {[kind |-> "ok", etag |-> e, body |-> OtherDict] : e \in ETagHeaders}
  \cup FailingServers

\* the ETag header of the latest 200 response of each resource that had one
\* (the empty entity tag counts as none)
Served(url, srv, f) ==
  IF f.status = 200 /\ srv.etag \notin {NoHeader, <<DQ, DQ>>}
    THEN [snap.served EXCEPT ![url] = srv.etag]
    ELSE snap.served

\* a request with the server's validator at that moment (current) and the
\* validator the server returned last (expected)
ETagRequest(url, srv, f) ==
  [url |-> url, if_none_match |-> f.if_none_match, status |-> f.status,
   validated |-> f.validated, late |-> 0,
   failed |-> srv.kind # "ok", current |-> srv.etag,
   expected |-> snap.served[url]]

InitETag ==
  /\ pc = "fetch"
  /\ running = TRUE
  /\ etag_incidents = NoETag
  /\ etag_components = NoETag
  /\ seen_incident_ids = {}
  /\ incident_states = [k \in {} |-> StateRecord([status |-> Absent, updated_at |-> Absent])]
  /\ incidents_data = NoData
  /\ components_data = NoData
  /\ sleep_left = 0
  /\ out = <<>>
  /\ req = NoRequest
  /\ snap = [phase |-> "fetch",
             served |-> [incidents |-> NoHeader, components |-> NoHeader]]
  /\ first_obs = "none"

\* a call of self._fetch_incidents()
ETagFetchIncidents ==
  /\ pc = "fetch"
  /\ \E srv \in ETagServers :
       LET f == fetch_incidents(srv)
       IN /\ incidents_data' = f.ret
          /\ etag_incidents' = f.etag
          /\ req' = ETagRequest("incidents", srv, f)
          /\ snap' = [snap EXCEPT !.served = Served("incidents", srv, f)]
  /\ UNCHANGED <<pc, running, etag_components, seen_incident_ids,
                 incident_states, components_data, sleep_left, out, first_obs>>

\* a call of self._fetch_components()
ETagFetchComponents ==
  /\ pc = "fetch"
  /\ \E srv \in ETagServers :
       LET f == fetch_components(srv)
       IN /\ components_data' = f.ret
          /\ etag_components' = f.etag
          /\ req' = ETagRequest("components", srv, f)
          /\ snap' = [snap EXCEPT !.served = Served("components", srv, f)]
  /\ UNCHANGED <<pc, running, etag_incidents, seen_incident_ids,
                 incident_states, incidents_data, sleep_left, out, first_obs>>

NextETag ==
  \/ ETagFetchIncidents
  \/ ETagFetchComponents

SpecETag == InitETag /\ [][NextETag]_vars

\* C17: a request made after the server has returned a validator carries
\* exactly that validator in If-None-Match, whatever its form, and is
\* answered 304 when the server's validator is still the one it returned
C17_ValidatorRoundTrip ==
  (req.url # "none" /\ req.expected # NoHeader) =>
    /\ req.if_none_match = req.expected
    /\ (~req.failed /\ req.current = req.expected) => req.status = 304

----------------------------------------------------------------------------
(* A cycle aborted by an exception *)

\* _process_incidents raised in this poll cycle
AbortedPass ==
  /\ pc = "except_check"
  /\ snap.phase = "poll"
  /\ snap.raised
  /\ HasIncidents(incidents_data)

\* the pass of this cycle had nothing raised
FullPass ==
  process_incidents(snap.seen, snap.states, <<>>, incidents_data,
                    components_data, 0)

\* the pass of a later cycle that is served the same collection, from the
\* store the aborted pass has left
LaterPass ==
  process_incidents(seen_incident_ids, incident_states, <<>>, incidents_data,
                    components_data, 0)

SameChange(n1, n2) ==
  n1.id = n2.id /\ n1.kind = n2.kind /\ n1.status = n2.status

\* C18: when a pass is aborted by an exception, every change it had detected
\* or was still to detect has been printed or is printed by the pass of a
\* later cycle that is served the same collection
C18_NoChangeLost ==
  AbortedPass =>
    \A k \in 1..Len(FullPass.out) :
      \/ \E j \in 1..Len(out) : out[j] = FullPass.out[k]
      \/ \E j \in 1..Len(LaterPass.out) : SameChange(LaterPass.out[j], FullPass.out[k])

----------------------------------------------------------------------------
(* Component names *)

\* the pass of this poll cycle followed a components fetch answered 304:
\* If-None-Match was sent, so an earlier components fetch returned a payload
\* together with the validator
ComponentsUnchangedPass ==
  /\ PassEnded
  /\ snap.comp_fetched
  /\ req.url = "components"
  /\ req.status = 304
  /\ ETagTruthy(etag_components)

\* C19: in a cycle whose components fetch is answered 304, the notifications
\* are rendered with the name lookup, from the components obtained earlier
C19_LookupAvailable ==
  ComponentsUnchangedPass => \A k \in 1..Len(out) : out[k].lookup

----------------------------------------------------------------------------
(* The two halves of the store *)

\* C20: the set of seen ids is the key set of incident_states, and every
\* record has a status and a last_updated, so that the elif of
\* _process_incidents is entered for every id that is not new
C20_SeenIsKeysOfStates ==
  /\ seen_incident_ids = DOMAIN incident_states
  /\ \A id \in DOMAIN incident_states :
       DOMAIN incident_states[id] = {"status", "last_updated"}

\* a store with an incident seeded at bootstrap, whose status change has
\* been printed, and an incident added by the poll loop
C20_Witness ==
  /\ PassEnded
  /\ Cardinality(snap.seen) = 1
  /\ seen_incident_ids = {"i1", "i2"}
  /\ Len(out) = 2
  /\ \E k \in 1..2 : out[k].kind = "StatusChanged" /\ out[k].id \in snap.seen

====
